---- MODULE Spec2Model ----
(***************************************************************************)
(* Model of the bitstamp-go streaming client.                              *)
(*                                                                         *)
(*   - WsClient (src/websocket.go): the read-loop goroutine, Close,        *)
(*     Subscribe, Unsubscribe and sendEvent.                               *)
(*   - Api.SubscribeOrderBook over WsClient (src/unnamed/part_000).        *)
(*   - Api.parseOrderBook (src/unnamed/part_000 and src/bitstamp.go).      *)
(*   - Api.formatTrades and the pusher-backed Api.SubscribeOrderBook       *)
(*     (src/bitstamp.go).                                                  *)
(*                                                                         *)
(* Five specifications share the definitions:                              *)
(*   WsSpec    one WsClient used by several concurrent callers and a       *)
(*             free consumer of Stream and Errors;                         *)
(*   FeedSpec  SubscribeOrderBook composed with its WsClient, the network, *)
(*             the stop signal and the caller draining dataChan;           *)
(*   ParseSpec parseOrderBook applied to every document of a bounded set;  *)
(*   TradeSpec formatTrades applied to every body of a bounded set;        *)
(*   PusherSpec the pusher-backed SubscribeOrderBook for each symbol.      *)
(***************************************************************************)
EXTENDS Integers, Sequences, FiniteSets, TLC

VARIABLES
    rlpc,        \* position of the read-loop goroutine
    cur,         \* the read loop's locals: err / message / e
    done,        \* number of values buffered in c.done (capacity DoneCap)
    errorsQ,     \* contents of c.Errors (capacity ErrorsCap)
    connClosed,  \* number of times c.ws.Close() has run
    nread,       \* frames the network has delivered so far
    closedInRead,\* c.Close() has run while the read loop was inside ReadMessage
    retrying,    \* the read error whose continue starts the next iteration
    diedAt,      \* where SubscribeOrderBook was when a read error ended the loop
    readLog,     \* ordinals of the frames the read loop decoded, in order
    recvLog,     \* ordinals of the envelopes consumers took from c.Stream
    fwdLog,      \* ordinals of the envelopes whose order book reached the caller
    sendLock,    \* the writers holding c.sendLock (none or one)
    wire,        \* fragments on the connection since the last frame boundary
    call,        \* per writer: the Close/Subscribe/Unsubscribe call in progress
    symb,        \* SubscribeOrderBook's argument symb
    opc,         \* position of SubscribeOrderBook
    ret,         \* value SubscribeOrderBook returned
    ev,          \* SubscribeOrderBook's local ev (the envelope taken from Stream)
    ob,          \* SubscribeOrderBook's local ob (the decoded order book)
    stopChan,    \* state of the caller's stopChan
    stopTaken,   \* the select has taken the <-stopChan case
    subResult,   \* what c.Subscribe returned to SubscribeOrderBook
    cause,       \* the error SubscribeOrderBook took from c.Errors
    nUnsub,      \* c.Unsubscribe calls issued by SubscribeOrderBook
    nClose,      \* c.Close calls issued by SubscribeOrderBook
    delivered,   \* order books the caller has received from dataChan
    doc,         \* ParseSpec: the document handed to parseOrderBook
    pres,        \* ParseSpec: result of parseOrderBook (src/unnamed/part_000)
    presPusher,  \* ParseSpec: result of parseOrderBook (src/bitstamp.go)
    tbody,       \* TradeSpec: the bytes handed to formatTrades
    tres,        \* TradeSpec: result of formatTrades
    channel,     \* PusherSpec: SubscribeOrderBook's local channel
    pusherClient \* PusherSpec: the push-service client

histVars   == <<retrying, diedAt, readLog, recvLog, fwdLog>>
readerVars == <<rlpc, cur, done, errorsQ, connClosed, nread, closedInRead,
                histVars>>
writerVars == <<sendLock, wire, call>>
orchVars   == <<symb, opc, ret, ev, ob, stopChan, stopTaken, subResult, cause,
                nUnsub, nClose, delivered>>
parseVars  == <<doc, pres, presPusher, tbody, tres>>
pusherVars == <<channel, pusherClient>>
vars == <<readerVars, writerVars, orchVars, parseVars, pusherVars>>

-----------------------------------------------------------------------------
(* Bounds of the model. *)

\* frames the network delivers over the connection's lifetime
MaxFrames == 2
\* elements in the bids and in the asks of a document of ParseSpec
MaxLen == 1
\* records in the list handed to formatTrades in TradeSpec
MaxTrades == 2

(* Program constants. *)

\* make(chan bool, 1)
DoneCap == 1
\* make(chan error, 1)
ErrorsCap == 1

\* the writer that is SubscribeOrderBook; the other writers are the callers
Orch == 0
\* the concurrent callers of the WsClient of WsSpec
Callers == {1, 2}
Writers == Callers \cup {Orch}

-----------------------------------------------------------------------------
(* JSON documents.  A value is a record [k, s, a]: its kind, the characters *)
(* of a string, the elements of an array.  A document is what               *)
(* json.Unmarshal sees: its top-level kind and, for an object, the three    *)
(* fields parseOrderBook looks at (Absent: the key is not in the map).      *)

JStr(s) == [k |-> "str", s |-> s, a |-> <<>>]
JArr(a) == [k |-> "arr", s |-> <<>>, a |-> a]
JNum    == [k |-> "num", s |-> <<>>, a |-> <<>>]
JNull   == [k |-> "null", s |-> <<>>, a |-> <<>>]
Absent  == [k |-> "absent", s |-> <<>>, a |-> <<>>]

Doc(top, ts, b, a) == [top |-> top, timestamp |-> ts, bids |-> b, asks |-> a]

\* the nil error; a non-nil error is the chain of its messages, outermost first
Nil == <<>>

Digits == {"0", "1", "2", "3", "4", "5", "6", "7", "8", "9"}

DigitVal(c) ==
    CASE c = "0" -> 0 [] c = "1" -> 1 [] c = "2" -> 2 [] c = "3" -> 3
      [] c = "4" -> 4 [] c = "5" -> 5 [] c = "6" -> 6 [] c = "7" -> 7
      [] c = "8" -> 8 [] c = "9" -> 9

RECURSIVE NatOf(_)
NatOf(s) ==
    IF s = <<>> THEN 0
    ELSE 10 * NatOf(SubSeq(s, 1, Len(s) - 1)) + DigitVal(s[Len(s)])

IsDigits(s) == \A i \in DOMAIN s : s[i] \in Digits

Unsigned(s) == IF s # <<>> /\ s[1] \in {"-", "+"} THEN Tail(s) ELSE s

Sign(s) == IF s # <<>> /\ s[1] = "-" THEN -1 ELSE 1

\* strconv.ParseInt(s, 10, 64) on the strings of the model (all within int64)
ParseInt(s) ==
    LET body == Unsigned(s) IN
    IF body # <<>> /\ IsDigits(body)
    THEN [err |-> Nil, v |-> Sign(s) * NatOf(body)]
    ELSE [err |-> <<"strconv.ParseInt: invalid syntax">>, v |-> 0]

RECURSIVE Normalize(_, _)
Normalize(m, f) ==
    IF f > 0 /\ m % 10 = 0 THEN Normalize(m \div 10, f - 1)
    ELSE [mant |-> m, frac |-> f]

\* strconv.ParseFloat(s, 64) on decimal strings: sign, digits, at most one
\* point, at least one digit.  The value is mant / 10^frac.
ParseFloat(s) ==
    LET body   == Unsigned(s)
        points == {i \in DOMAIN body : body[i] = "."}
        digits == SelectSeq(body, LAMBDA c : c # ".")
        nfrac  == IF points = {} THEN 0
                  ELSE Len(body) - (CHOOSE i \in points : TRUE)
    IN
    IF Cardinality(points) <= 1 /\ digits # <<>> /\ IsDigits(digits)
    THEN [err |-> Nil, v |-> Normalize(Sign(s) * NatOf(digits), nfrac)]
    ELSE [err |-> <<"strconv.ParseFloat: invalid syntax">>,
          v |-> [mant |-> 0, frac |-> 0]]

\* errors.Wrap(err, message): nil when err is nil
Wrap(err, msg) == IF err = Nil THEN Nil ELSE <<msg>> \o err

\* json.Unmarshal(data, &defaultstruct) into a map[string]interface{}
UnmarshalMap(d) ==
    CASE d.top = "invalid" -> <<"json: syntax error">>
      [] d.top = "other"   -> <<"json: cannot unmarshal into map">>
      [] OTHER             -> Nil

\* defaultstruct[key]: the value, or a nil interface for a key not in the map
Field(d, key) ==
    IF d.top # "object" THEN Absent
    ELSE CASE key = "timestamp" -> d.timestamp
           [] key = "bids"      -> d.bids
           [] key = "asks"      -> d.asks

\* the closure parse inside parseOrderBook, from element i of arr onwards:
\* [st, err, orders] with st "ok", "err" or "panic"
RECURSIVE parse(_, _)
parse(arr, i) ==
    IF i > Len(arr) THEN [st |-> "ok", err |-> Nil, orders |-> <<>>]
    ELSE
      LET elem == arr[i]
          bad(st, e) == [st |-> st, err |-> e, orders |-> <<>>]
      IN
      IF elem.k # "arr" THEN bad("panic", Nil)             \* elem.([]interface{})
      ELSE IF Len(elem.a) < 1 THEN bad("panic", Nil)       \* ord[0]
      ELSE IF elem.a[1].k # "str" THEN bad("panic", Nil)   \* ord[0].(string)
      ELSE
        LET price == ParseFloat(elem.a[1].s) IN
        IF price.err # Nil THEN bad("err", price.err)
        ELSE IF Len(elem.a) < 2 THEN bad("panic", Nil)     \* ord[1]
        ELSE IF elem.a[2].k # "str" THEN bad("panic", Nil) \* ord[1].(string)
        ELSE
          LET amount == ParseFloat(elem.a[2].s) IN
          IF amount.err # Nil THEN bad("err", amount.err)
          ELSE
            LET rest == parse(arr, i + 1) IN
            IF rest.st # "ok" THEN rest
            ELSE [st |-> "ok", err |-> Nil,
                  orders |-> <<[Price |-> price.v, Amount |-> amount.v]>>
                             \o rest.orders]

\* What parseOrderBook hands back: st is "ok" (a book and a nil error),
\* "err" (a nil book and a non-nil error), "nilnil" (a nil book and a nil
\* error) or "panic" (a run-time panic).
Result(st, err, book) == [st |-> st, err |-> err, book |-> book]

NoBook == [Time |-> 0, Bids |-> <<>>, Asks |-> <<>>]

\* the part of parseOrderBook after bids and asks were taken from the map
parseSides(timestamp, bids, asks) ==
    LET parsedBids == parse(bids.a, 1) IN
    IF parsedBids.st = "panic" THEN Result("panic", Nil, NoBook)
    ELSE IF parsedBids.err # Nil
    THEN Result("err", Wrap(parsedBids.err, "bids parsing error"), NoBook)
    ELSE
      LET parsedAsks == parse(asks.a, 1) IN
      IF parsedAsks.st = "panic" THEN Result("panic", Nil, NoBook)
      ELSE IF parsedAsks.err # Nil
      THEN Result("err", Wrap(parsedAsks.err, "asks parsing error"), NoBook)
      ELSE Result("ok", Nil, [Time |-> timestamp, Bids |-> parsedBids.orders,
                              Asks |-> parsedAsks.orders])

\* a function returning (nil, e): an error when e is non-nil, else (nil, nil)
ReturnNil(e) == IF e = Nil THEN Result("nilnil", Nil, NoBook)
                ELSE Result("err", e, NoBook)

\* the timestamp step of parseOrderBook: [err, v]
parseTimestamp(d, now) ==
    LET timestampObj == Field(d, "timestamp") IN
    IF timestampObj.k = "absent" THEN [err |-> Nil, v |-> now]
    ELSE IF timestampObj.k # "str" THEN [err |-> <<"invalid timestamp">>, v |-> 0]
    ELSE ParseInt(timestampObj.s)

\* Api.parseOrderBook of src/unnamed/part_000 (the WsClient-backed client)
parseOrderBook(d, now) ==
    LET uerr == UnmarshalMap(d) IN
    IF uerr # Nil THEN Result("err", uerr, NoBook)
    ELSE
      LET ts == parseTimestamp(d, now) IN
      IF ts.err # Nil THEN Result("err", ts.err, NoBook)
      ELSE
        \* err is nil here: Unmarshal and ParseInt both succeeded
        LET err  == ts.err
            bids == Field(d, "bids")
            asks == Field(d, "asks")
        IN
        IF bids.k # "arr"
        THEN ReturnNil(Wrap(err, "bids interface convert error"))
        ELSE IF asks.k # "arr"
        THEN ReturnNil(Wrap(err, "asks interface convert error"))
        ELSE parseSides(ts.v, bids, asks)

\* Api.parseOrderBook of src/bitstamp.go (the push-service-backed client)
parseOrderBookPusher(d, now) ==
    LET uerr == UnmarshalMap(d) IN
    IF uerr # Nil THEN Result("err", uerr, NoBook)
    ELSE
      LET ts == parseTimestamp(d, now) IN
      IF ts.err # Nil THEN Result("err", ts.err, NoBook)
      ELSE
        LET bids == Field(d, "bids")
            asks == Field(d, "asks")
        IN
        IF bids.k # "arr" THEN Result("panic", Nil, NoBook)
        ELSE IF asks.k # "arr" THEN Result("panic", Nil, NoBook)
        ELSE parseSides(ts.v, bids, asks)

-----------------------------------------------------------------------------
(* formatTrades (the same text in src/bitstamp.go and src/unnamed/part_000). *)

\* One element of the list: obj says whether it is a JSON object; price,
\* amount, date and tid are what the map holds under those keys.
TradeRec(obj, price, amount, date, tid) ==
    [obj |-> obj, price |-> price, amount |-> amount, date |-> date, tid |-> tid]

\* The bytes: top is "invalid" (no JSON), "other" (JSON that is no array),
\* "null" or "array"; recs are the elements of the array.
TradeBody(top, recs) == [top |-> top, recs |-> recs]

\* json.Unmarshal(body, &defaultstruct) into a []interface{}
UnmarshalSlice(b) ==
    CASE b.top = "invalid" -> <<"json: syntax error">>
      [] b.top = "other"   -> <<"json: cannot unmarshal into []interface {}">>
      [] OTHER             -> Nil

\* the zero value of Trade: what make([]Trade, n) fills the slice with
ZeroTrade == [Time |-> <<>>, ID |-> <<>>, Price |-> [mant |-> 0, frac |-> 0],
              Amount |-> [mant |-> 0, frac |-> 0]]

\* What formatTrades hands back: st is "ok" (a nil error), "err" (a non-nil
\* error) or "panic"; trades is the slice returned with it.
TradesResult(st, err, trades) == [st |-> st, err |-> err, trades |-> trades]

\* the loop for i, _trade := range defaultstruct, from element i onwards
RECURSIVE formatTradesFrom(_, _, _)
formatTradesFrom(recs, i, trades) ==
    IF i > Len(recs) THEN TradesResult("ok", Nil, trades)
    ELSE
      LET t == recs[i]
          panic == TradesResult("panic", Nil, <<>>)
      IN
      IF ~t.obj THEN panic                  \* _trade.(map[string]interface{})
      ELSE IF t.price.k # "str" THEN panic  \* _t["price"].(string)
      ELSE
        LET price == ParseFloat(t.price.s) IN
        IF price.err # Nil THEN TradesResult("err", price.err, trades)
        ELSE IF t.amount.k # "str" THEN panic           \* _t["amount"].(string)
        ELSE
          LET amount == ParseFloat(t.amount.s) IN
          IF amount.err # Nil THEN TradesResult("err", amount.err, trades)
          ELSE IF t.date.k # "str" THEN panic           \* _t["date"].(string)
          ELSE
            LET timestamp == ParseInt(t.date.s) IN
            IF timestamp.err # Nil
            THEN TradesResult("err", timestamp.err, trades)
            ELSE IF t.tid.k # "str" THEN panic          \* _t["tid"].(string)
            ELSE formatTradesFrom(recs, i + 1,
                     [trades EXCEPT ![i] = [Time   |-> <<timestamp.v>>,
                                            ID     |-> t.tid.s,
                                            Price  |-> price.v,
                                            Amount |-> amount.v]])

\* formatTrades(body)
formatTrades(b) ==
    LET err == UnmarshalSlice(b) IN
    IF err # Nil THEN TradesResult("err", err, <<>>)
    ELSE formatTradesFrom(b.recs, 1, [j \in 1..Len(b.recs) |-> ZeroTrade])

-----------------------------------------------------------------------------
(* Documents, frames and errors the network can deliver. *)

Pair(price, amount) == JArr(<<JStr(price), JStr(amount)>>)

\* {"timestamp":"17","bids":[["1.5","2"],["1","3"]],"asks":[["2","1"]]}
GoodDoc1 ==
    Doc("object", JStr(<<"1", "7">>),
        JArr(<<Pair(<<"1", ".", "5">>, <<"2">>), Pair(<<"1">>, <<"3">>)>>),
        JArr(<<Pair(<<"2">>, <<"1">>)>>))

\* {"bids":[["3","1"]],"asks":[]}
GoodDoc2 == Doc("object", Absent, JArr(<<Pair(<<"3">>, <<"1">>)>>), JArr(<<>>))

\* {"bids":[["x","1"]],"asks":[]}
BadPriceDoc == Doc("object", Absent, JArr(<<Pair(<<"x">>, <<"1">>)>>), JArr(<<>>))

\* null: what json.Marshal gives for the Data of an envelope without "data"
NullDoc == Doc("null", Absent, Absent, Absent)

PayloadDocs == {GoodDoc1, GoodDoc2, BadPriceDoc, NullDoc}

\* the wall clock read by time.Now()
Clock == {50, 60}

\* A frame read from the connection: valid says whether json.Unmarshal into
\* WsEvent succeeds; event and data are the envelope's fields.
Frame(valid, event, data) == [valid |-> valid, event |-> event, data |-> data]

BadFrame == Frame(FALSE, "", NullDoc)

Frames ==
    {BadFrame, Frame(TRUE, "bts:subscription_succeeded", NullDoc)}
        \cup {Frame(TRUE, "data", p) : p \in PayloadDocs}

\* the frames of WsSpec: one that cannot be decoded and one that can
WsFrames == {BadFrame, Frame(TRUE, "data", GoodDoc1)}

\* Errors of ReadMessage: one whose Temporary() is true, one whose
\* Temporary() is false, one that has no Temporary method.
ReadErrors == {"temporary", "permanent", "plain"}

\* err.(errTemporary) succeeds
HasTemporary(e) == e \in {"temporary", "permanent"}

\* et.Temporary()
Temporary(e) == e = "temporary"

NoErr == "nil"
NoCur == [err |-> NoErr, frame |-> BadFrame]

ChannelName(sy) == "order_book_" \o sy

Symbols == {"btcusd", "etheur"}

Channels == {ChannelName(sy) : sy \in Symbols}

\* argument lists the callers of WsSpec pass to Subscribe / Unsubscribe
ChannelLists ==
    {<<ChannelName("btcusd")>>, <<ChannelName("btcusd"), ChannelName("etheur")>>}

IdleCall == [op |-> "none", pc |-> "idle", chans |-> <<>>, err |-> FALSE,
             res |-> "none"]

SendCall(op, chans) == [op |-> op, pc |-> "lock", chans |-> chans,
                        err |-> FALSE, res |-> "none"]

CloseCall == [op |-> "Close", pc |-> "close", chans |-> <<>>, err |-> FALSE,
              res |-> "none"]

EventOf(op) == IF op = "Subscribe" THEN "bts:subscribe" ELSE "bts:unsubscribe"

Fragment(w, event, chan, part) ==
    [w |-> w, event |-> event, channel |-> chan, part |-> part]

\* The transport records a frame boundary when what was written since the
\* last boundary is exactly one whole frame: its first part followed by its
\* last part.
WholeFrame(frags) ==
    /\ Len(frags) = 2
    /\ frags[1].part = "begin"
    /\ frags[2] = [frags[1] EXCEPT !.part = "end"]

AtBoundary(frags) == IF WholeFrame(frags) THEN <<>> ELSE frags

-----------------------------------------------------------------------------
(* WsClient: the read-loop goroutine of NewWsClient. *)

\* defer c.ws.Close() and the goroutine's return
Terminate == /\ connClosed' = connClosed + 1
             /\ rlpc' = "terminated"

\* a plain send c.Errors <- err, which waits for room in the queue
PushErrorsBlocking(e) ==
    /\ Len(errorsQ) < ErrorsCap
    /\ errorsQ' = Append(errorsQ, e)

\* select { case c.Errors <- err: default: fmt.Printf(...) }
PushErrors(e) ==
    errorsQ' = IF Len(errorsQ) < ErrorsCap THEN Append(errorsQ, e) ELSE errorsQ

\* a select that may go on to read although the flag is set, as when the
\* read sits in a second ready case instead of under default
ReaderSelectEither ==
    /\ rlpc = "select"
    /\ \/ /\ done > 0
          /\ done' = done - 1
          /\ Terminate
       \/ /\ rlpc' = "reading"
          /\ UNCHANGED <<done, connClosed>>
    /\ retrying' = NoErr
    /\ UNCHANGED <<cur, errorsQ, nread, closedInRead, diedAt, readLog,
                   recvLog, fwdLog>>
    /\ UNCHANGED <<writerVars, orchVars, parseVars, pusherVars>>

\* select { case <-c.done: return; default: ... }
ReaderSelect ==
    /\ rlpc = "select"
    /\ IF done > 0
       THEN /\ done' = done - 1
            /\ Terminate
       ELSE /\ rlpc' = "reading"
            /\ UNCHANGED <<done, connClosed>>
    /\ retrying' = NoErr
    /\ UNCHANGED <<cur, errorsQ, nread, closedInRead, diedAt, readLog,
                   recvLog, fwdLog>>
    /\ UNCHANGED <<writerVars, orchVars, parseVars, pusherVars>>

\* c.ws.ReadMessage() returns a frame
ReadFrame(frames) ==
    /\ rlpc = "reading"
    /\ nread < MaxFrames
    /\ \E m \in frames : cur' = [err |-> NoErr, frame |-> m]
    /\ nread' = nread + 1
    /\ rlpc' = "unmarshal"
    /\ UNCHANGED <<done, errorsQ, connClosed, closedInRead, histVars>>
    /\ UNCHANGED <<writerVars, orchVars, parseVars, pusherVars>>

\* c.ws.ReadMessage() returns an error
ReadError ==
    /\ rlpc = "reading"
    /\ \E e \in ReadErrors : cur' = [err |-> e, frame |-> BadFrame]
    /\ rlpc' = "pushReadErr"
    /\ UNCHANGED <<done, errorsQ, connClosed, nread, closedInRead, histVars>>
    /\ UNCHANGED <<writerVars, orchVars, parseVars, pusherVars>>

\* the read error is offered to c.Errors
ReaderPushReadErr ==
    /\ rlpc = "pushReadErr"
    /\ PushErrors(cur.err)
    /\ rlpc' = "classify"
    /\ UNCHANGED <<cur, done, connClosed, nread, closedInRead, histVars>>
    /\ UNCHANGED <<writerVars, orchVars, parseVars, pusherVars>>

\* a classification that never returns: every read error is slept on
ReaderClassifyLenient ==
    /\ rlpc = "classify"
    /\ rlpc' = "sleeping"
    /\ retrying' = cur.err
    /\ cur' = NoCur
    /\ UNCHANGED <<done, errorsQ, connClosed, nread, closedInRead, diedAt,
                   readLog, recvLog, fwdLog>>
    /\ UNCHANGED <<writerVars, orchVars, parseVars, pusherVars>>

\* a classification that returns unless the error says it is temporary:
\* if et, success := err.(errTemporary); !success || !et.Temporary() { return }
ReaderClassifyStrict ==
    /\ rlpc = "classify"
    /\ IF HasTemporary(cur.err) /\ Temporary(cur.err)
       THEN /\ rlpc' = "sleeping"
            /\ retrying' = cur.err
            /\ UNCHANGED <<connClosed, diedAt>>
       ELSE /\ Terminate
            /\ diedAt' = opc
            /\ retrying' = retrying
    /\ cur' = NoCur
    /\ UNCHANGED <<done, errorsQ, nread, closedInRead, readLog, recvLog, fwdLog>>
    /\ UNCHANGED <<writerVars, orchVars, parseVars, pusherVars>>

\* if et, success := err.(errTemporary); success { if !et.Temporary() { return } }
ReaderClassify ==
    /\ rlpc = "classify"
    /\ IF HasTemporary(cur.err) /\ ~Temporary(cur.err)
       THEN /\ Terminate
            /\ diedAt' = opc
            /\ retrying' = retrying
       ELSE /\ rlpc' = "sleeping"
            /\ retrying' = cur.err
            /\ UNCHANGED <<connClosed, diedAt>>
    /\ cur' = NoCur
    /\ UNCHANGED <<done, errorsQ, nread, closedInRead, readLog, recvLog, fwdLog>>
    /\ UNCHANGED <<writerVars, orchVars, parseVars, pusherVars>>

\* time.Sleep(readMsgTimeout); continue
ReaderSleep ==
    /\ rlpc = "sleeping"
    /\ rlpc' = "select"
    /\ UNCHANGED <<cur, done, errorsQ, connClosed, nread, closedInRead, histVars>>
    /\ UNCHANGED <<writerVars, orchVars, parseVars, pusherVars>>

\* a decode followed by a send that does not wait for a consumer:
\* select { case c.Stream <- e: default: } with nobody receiving yet
ReaderUnmarshalNoWait ==
    /\ rlpc = "unmarshal"
    /\ IF cur.frame.valid
       THEN /\ rlpc' = "select"
            /\ cur' = NoCur
            /\ readLog' = Append(readLog, nread)
       ELSE /\ rlpc' = "pushDecodeErr"
            /\ cur' = [err |-> "unmarshal", frame |-> BadFrame]
            /\ readLog' = readLog
    /\ UNCHANGED <<done, errorsQ, connClosed, nread, closedInRead, retrying,
                   diedAt, recvLog, fwdLog>>
    /\ UNCHANGED <<writerVars, orchVars, parseVars, pusherVars>>

\* err = json.Unmarshal(message, e)
ReaderUnmarshal ==
    /\ rlpc = "unmarshal"
    /\ IF cur.frame.valid
       THEN /\ rlpc' = "sending"
            /\ cur' = cur
            /\ readLog' = Append(readLog, nread)
       ELSE /\ rlpc' = "pushDecodeErr"
            /\ cur' = [err |-> "unmarshal", frame |-> BadFrame]
            /\ readLog' = readLog
    /\ UNCHANGED <<done, errorsQ, connClosed, nread, closedInRead, retrying,
                   diedAt, recvLog, fwdLog>>
    /\ UNCHANGED <<writerVars, orchVars, parseVars, pusherVars>>

\* the decode error is offered to c.Errors; continue
ReaderPushDecodeErr ==
    /\ rlpc = "pushDecodeErr"
    /\ PushErrors(cur.err)
    /\ rlpc' = "select"
    /\ cur' = NoCur
    /\ UNCHANGED <<done, connClosed, nread, closedInRead, histVars>>
    /\ UNCHANGED <<writerVars, orchVars, parseVars, pusherVars>>

\* the goroutine's own steps: everything but the hand-over on c.Stream
ReaderStep ==
    \/ ReaderSelect
    \/ ReaderPushReadErr
    \/ ReaderClassify
    \/ ReaderSleep
    \/ ReaderUnmarshal
    \/ ReaderPushDecodeErr

-----------------------------------------------------------------------------
(* WsClient: Close, Subscribe, Unsubscribe, sendEvent. *)

\* a Close that is a plain send c.done <- true, which waits for room
CloseBlocking(w) ==
    /\ call[w].pc = "close"
    /\ done < DoneCap
    /\ done' = done + 1
    /\ call' = [call EXCEPT ![w].pc = "ret", ![w].res = "sent"]
    /\ closedInRead' = (closedInRead \/ rlpc = "reading")
    /\ UNCHANGED histVars
    /\ UNCHANGED <<rlpc, cur, errorsQ, connClosed, nread>>
    /\ UNCHANGED <<sendLock, wire>>
    /\ UNCHANGED <<orchVars, parseVars, pusherVars>>

\* a Close that also closes the connection itself
CloseClosingConn(w) ==
    /\ call[w].pc = "close"
    /\ done' = IF done < DoneCap THEN done + 1 ELSE done
    /\ connClosed' = connClosed + 1
    /\ call' = [call EXCEPT ![w].pc = "ret",
                            ![w].res = IF done < DoneCap THEN "sent" ELSE "dropped"]
    /\ closedInRead' = (closedInRead \/ rlpc = "reading")
    /\ UNCHANGED histVars
    /\ UNCHANGED <<rlpc, cur, errorsQ, nread>>
    /\ UNCHANGED <<sendLock, wire>>
    /\ UNCHANGED <<orchVars, parseVars, pusherVars>>

\* c.Close(): select { case c.done <- true: default: fmt.Printf(...) }
CloseSelect(w) ==
    /\ call[w].pc = "close"
    /\ done' = IF done < DoneCap THEN done + 1 ELSE done
    /\ call' = [call EXCEPT ![w].pc = "ret",
                            ![w].res = IF done < DoneCap THEN "sent" ELSE "dropped"]
    /\ closedInRead' = (closedInRead \/ rlpc = "reading")
    /\ UNCHANGED histVars
    /\ UNCHANGED <<rlpc, cur, errorsQ, connClosed, nread>>
    /\ UNCHANGED <<sendLock, wire>>
    /\ UNCHANGED <<orchVars, parseVars, pusherVars>>

\* a sendEvent that goes on to write without waiting for the lock
sendEventNoLock(w) ==
    /\ call[w].pc = "lock"
    /\ sendLock' = sendLock \cup {w}
    /\ call' = [call EXCEPT ![w].pc = "write"]
    /\ UNCHANGED wire
    /\ UNCHANGED <<readerVars, orchVars, parseVars, pusherVars>>

\* c.sendLock.Lock()
sendEventLock(w) ==
    /\ call[w].pc = "lock"
    /\ sendLock = {}
    /\ sendLock' = {w}
    /\ call' = [call EXCEPT ![w].pc = "write"]
    /\ UNCHANGED wire
    /\ UNCHANGED <<readerVars, orchVars, parseVars, pusherVars>>

\* c.ws.WriteJSON(&sub) starts: it fails on a closed connection, may fail on
\* the network, else puts the first part of the frame on the wire
sendEventWrite(w) ==
    /\ call[w].pc = "write"
    /\ \E netOk \in BOOLEAN :
         IF connClosed = 0 /\ netOk
         THEN /\ wire' = Append(wire, Fragment(w, EventOf(call[w].op),
                                               Head(call[w].chans), "begin"))
              /\ call' = [call EXCEPT ![w].pc = "writeEnd"]
         ELSE /\ wire' = wire
              /\ call' = [call EXCEPT ![w].pc = "unlock", ![w].err = TRUE]
    /\ UNCHANGED sendLock
    /\ UNCHANGED <<readerVars, orchVars, parseVars, pusherVars>>

\* c.ws.WriteJSON(&sub) puts the rest of the frame on the wire
sendEventWriteEnd(w) ==
    /\ call[w].pc = "writeEnd"
    /\ wire' = AtBoundary(Append(wire, Fragment(w, EventOf(call[w].op),
                                                 Head(call[w].chans), "end")))
    /\ call' = [call EXCEPT ![w].pc = "unlock"]
    /\ UNCHANGED sendLock
    /\ UNCHANGED <<readerVars, orchVars, parseVars, pusherVars>>

\* defer c.sendLock.Unlock(), sendEvent returns, and the loop of Subscribe /
\* Unsubscribe goes on: return err, next channel, or return nil
sendEventUnlock(w) ==
    /\ call[w].pc = "unlock"
    /\ sendLock' = sendLock \ {w}
    /\ call' = [call EXCEPT ![w] =
                  IF call[w].err
                  THEN [@ EXCEPT !.pc = "ret", !.res = "err"]
                  ELSE IF Len(call[w].chans) > 1
                  THEN [@ EXCEPT !.pc = "lock", !.chans = Tail(@)]
                  ELSE [@ EXCEPT !.pc = "ret", !.res = "ok"]]
    /\ UNCHANGED wire
    /\ UNCHANGED <<readerVars, orchVars, parseVars, pusherVars>>

\* a caller calls c.Close()
CallClose(c) ==
    /\ call[c].pc = "idle"
    /\ call' = [call EXCEPT ![c] = CloseCall]
    /\ UNCHANGED <<sendLock, wire>>
    /\ UNCHANGED <<readerVars, orchVars, parseVars, pusherVars>>

\* a caller calls c.Subscribe(channels...) or c.Unsubscribe(channels...)
CallSend(c) ==
    /\ call[c].pc = "idle"
    /\ \E op \in {"Subscribe", "Unsubscribe"}, chans \in ChannelLists :
         call' = [call EXCEPT ![c] = SendCall(op, chans)]
    /\ UNCHANGED <<sendLock, wire>>
    /\ UNCHANGED <<readerVars, orchVars, parseVars, pusherVars>>

\* the call returns to the caller
CallReturn(c) ==
    /\ call[c].pc = "ret"
    /\ call' = [call EXCEPT ![c] = IdleCall]
    /\ UNCHANGED <<sendLock, wire>>
    /\ UNCHANGED <<readerVars, orchVars, parseVars, pusherVars>>

\* a consumer takes the envelope the read loop offers on c.Stream
ConsumeStream ==
    /\ rlpc = "sending"
    /\ rlpc' = "select"
    /\ cur' = NoCur
    /\ recvLog' = Append(recvLog, nread)
    /\ UNCHANGED <<done, errorsQ, connClosed, nread, closedInRead, retrying,
                   diedAt, readLog, fwdLog>>
    /\ UNCHANGED <<writerVars, orchVars, parseVars, pusherVars>>

\* a consumer takes an error from c.Errors
ConsumeErrors ==
    /\ errorsQ # <<>>
    /\ errorsQ' = Tail(errorsQ)
    /\ UNCHANGED <<rlpc, cur, done, connClosed, nread, closedInRead, histVars>>
    /\ UNCHANGED <<writerVars, orchVars, parseVars, pusherVars>>

-----------------------------------------------------------------------------
(* Initial values. *)

ReaderInit(pc) ==
    /\ rlpc = pc
    /\ cur = NoCur
    /\ done = 0
    /\ errorsQ = <<>>
    /\ connClosed = 0
    /\ nread = 0
    /\ closedInRead = FALSE
    /\ retrying = NoErr
    /\ diedAt = "none"
    /\ readLog = <<>>
    /\ recvLog = <<>>
    /\ fwdLog = <<>>

WriterInit ==
    /\ sendLock = {}
    /\ wire = <<>>
    /\ call = [w \in Writers |-> IdleCall]

OrchInit(pc) ==
    /\ symb \in Symbols
    /\ opc = pc
    /\ ret = Nil
    /\ ev = BadFrame
    /\ ob = NoBook
    /\ stopChan = "open"
    /\ stopTaken = FALSE
    /\ subResult = "none"
    /\ cause = NoErr
    /\ nUnsub = 0
    /\ nClose = 0
    /\ delivered = <<>>

NoResult == Result("none", Nil, NoBook)

NoBody == TradeBody("null", <<>>)

\* the push-service client: the channels subscribed and not unsubscribed
\* since, the channel names Unsubscribe was called with, whether "data" is
\* bound, whether Close was called
PusherClient(subscribed, unsubscribed, bound, closed) ==
    [subscribed |-> subscribed, unsubscribed |-> unsubscribed,
     bound |-> bound, closed |-> closed]

NoPusher == PusherClient({}, {}, FALSE, FALSE)

PusherIdle ==
    /\ channel = ""
    /\ pusherClient = NoPusher

NoTrades == TradesResult("none", Nil, <<>>)

ParseInit ==
    /\ doc = NullDoc
    /\ pres = NoResult
    /\ presPusher = NoResult
    /\ tbody = NoBody
    /\ tres = NoTrades
    /\ PusherIdle

-----------------------------------------------------------------------------
(* WsSpec: one WsClient, its read loop running, used by Callers. *)

WsInit ==
    /\ ReaderInit("select")
    /\ WriterInit
    /\ OrchInit("absent")
    /\ symb = "btcusd"
    /\ ParseInit

WsNext ==
    \/ ReaderSelect
    \/ ReadFrame(WsFrames)
    \/ ReadError
    \/ ReaderPushReadErr
    \/ ReaderClassify
    \/ ReaderSleep
    \/ ReaderUnmarshal
    \/ ReaderPushDecodeErr
    \/ ConsumeStream
    \/ ConsumeErrors
    \/ \E c \in Callers : CallClose(c)
    \/ \E c \in Callers : CloseSelect(c)
    \/ \E c \in Callers : CallSend(c)
    \/ \E c \in Callers : sendEventLock(c)
    \/ \E c \in Callers : sendEventWrite(c)
    \/ \E c \in Callers : sendEventWriteEnd(c)
    \/ \E c \in Callers : sendEventUnlock(c)
    \/ \E c \in Callers : CallReturn(c)

WsSpec == WsInit /\ [][WsNext]_vars

-----------------------------------------------------------------------------
(* Api.SubscribeOrderBook over WsClient (src/unnamed/part_000). *)

\* json.Marshal(ev.Data): the bytes of the RawMessage when they are valid
\* JSON, else an error
Marshal(data) ==
    IF data.top = "invalid" THEN [err |-> <<"json: error calling MarshalJSON">>,
                                  b |-> data]
    ELSE [err |-> Nil, b |-> data]

\* c, err := NewWsClient(): the dial fails and SubscribeOrderBook returns the
\* error, or the read loop starts and c.Subscribe(order_book_<symb>) is called
OrchNewWsClient ==
    /\ opc = "start"
    /\ \E dialOk \in BOOLEAN :
         IF dialOk
         THEN /\ rlpc' = "select"
              /\ opc' = "subscribe"
              /\ call' = [call EXCEPT
                            ![Orch] = SendCall("Subscribe", <<ChannelName(symb)>>)]
              /\ ret' = ret
         ELSE /\ opc' = "returned"
              /\ ret' = Wrap(<<"error dialing websocket">>,
                             "error initializing client")
              /\ UNCHANGED <<rlpc, call>>
    /\ UNCHANGED <<cur, done, errorsQ, connClosed, nread, closedInRead, histVars>>
    /\ UNCHANGED <<sendLock, wire>>
    /\ UNCHANGED <<symb, ev, ob, stopChan, stopTaken, subResult, cause,
                   nUnsub, nClose, delivered>>
    /\ UNCHANGED <<parseVars, pusherVars>>

\* c.Subscribe(...) has returned; its result is not looked at
OrchSubscribed ==
    /\ opc = "subscribe"
    /\ call[Orch].pc = "ret"
    /\ subResult' = call[Orch].res
    /\ call' = [call EXCEPT ![Orch] = IdleCall]
    /\ opc' = "delivering"
    /\ UNCHANGED <<symb, ret, ev, ob, stopChan, stopTaken, cause, nUnsub,
                   nClose, delivered>>
    /\ UNCHANGED <<sendLock, wire>>
    /\ UNCHANGED <<readerVars, parseVars, pusherVars>>

\* case ev := <-c.Stream: the read loop's send and this receive meet
OrchRecvStream ==
    /\ opc = "delivering"
    /\ rlpc = "sending"
    /\ ev' = cur.frame
    /\ rlpc' = "select"
    /\ cur' = NoCur
    /\ opc' = "handle"
    /\ recvLog' = Append(recvLog, nread)
    /\ UNCHANGED <<done, errorsQ, connClosed, nread, closedInRead, retrying,
                   diedAt, readLog, fwdLog>>
    /\ UNCHANGED <<symb, ret, ob, stopChan, stopTaken, subResult, cause,
                   nUnsub, nClose, delivered>>
    /\ UNCHANGED <<writerVars, parseVars, pusherVars>>

\* a body of case ev := <-c.Stream without the test ev.Event == "data"
OrchHandleAnyEvent ==
    /\ opc = "handle"
    /\ \E now \in Clock :
         LET b == Marshal(ev.data)
             r == parseOrderBook(b.b, now)
         IN
         IF b.err # Nil
         THEN /\ opc' = "returned"
              /\ ret' = Wrap(b.err, "error marshal data to byte")
              /\ ob' = ob
         ELSE IF r.st = "ok"
         THEN /\ opc' = "forward"
              /\ ob' = r.book
              /\ ret' = ret
         ELSE IF r.st = "err"
         THEN /\ opc' = "delivering"
              /\ UNCHANGED <<ob, ret>>
         ELSE /\ opc' = "panicked"
              /\ UNCHANGED <<ob, ret>>
    /\ ev' = BadFrame
    /\ UNCHANGED <<symb, stopChan, stopTaken, subResult, cause, nUnsub,
                   nClose, delivered>>
    /\ UNCHANGED <<readerVars, writerVars, parseVars, pusherVars>>

\* the body of case ev := <-c.Stream
OrchHandle ==
    /\ opc = "handle"
    /\ \E now \in Clock :
         LET b == Marshal(ev.data)
             r == parseOrderBook(b.b, now)
         IN
         IF ev.event # "data"
         THEN /\ opc' = "delivering"                \* fmt.Println(ev.Event)
              /\ UNCHANGED <<ob, ret>>
         ELSE IF b.err # Nil
         THEN /\ opc' = "returned"
              /\ ret' = Wrap(b.err, "error marshal data to byte")
              /\ ob' = ob
         ELSE IF r.st = "ok"
         THEN /\ opc' = "forward"                   \* dataChan <- *ob
              /\ ob' = r.book
              /\ ret' = ret
         ELSE IF r.st = "err"
         THEN /\ opc' = "delivering"                \* the event is dropped
              /\ UNCHANGED <<ob, ret>>
         ELSE /\ opc' = "panicked"                  \* *ob with ob nil, or a
              /\ UNCHANGED <<ob, ret>>              \* panic inside the decode
    /\ ev' = BadFrame
    /\ UNCHANGED <<symb, stopChan, stopTaken, subResult, cause, nUnsub,
                   nClose, delivered>>
    /\ UNCHANGED <<readerVars, writerVars, parseVars, pusherVars>>

\* dataChan <- *ob completes: the caller receives the order book
OrchForward ==
    /\ opc = "forward"
    /\ delivered' = Append(delivered, ob)
    /\ fwdLog' = Append(fwdLog, recvLog[Len(recvLog)])
    /\ ob' = NoBook
    /\ opc' = "delivering"
    /\ UNCHANGED <<symb, ret, ev, stopChan, stopTaken, subResult, cause,
                   nUnsub, nClose>>
    /\ UNCHANGED <<rlpc, cur, done, errorsQ, connClosed, nread, closedInRead,
                   retrying, diedAt, readLog, recvLog>>
    /\ UNCHANGED <<writerVars, parseVars, pusherVars>>

\* a stop case that returns nil at once, with no Unsubscribe and no Close
OrchStopCaseReturns ==
    /\ opc = "delivering"
    /\ stopChan \in {"sending", "closed"}
    /\ stopChan' = IF stopChan = "sending" THEN "open" ELSE "closed"
    /\ stopTaken' = TRUE
    /\ opc' = "returned"
    /\ ret' = Nil
    /\ UNCHANGED <<symb, ev, ob, subResult, cause, nUnsub, nClose, delivered>>
    /\ UNCHANGED <<readerVars, writerVars, parseVars, pusherVars>>

\* case <-stopChan: an empty case; the for loop goes round again
OrchStopCase ==
    /\ opc = "delivering"
    /\ stopChan \in {"sending", "closed"}
    /\ stopChan' = IF stopChan = "sending" THEN "open" ELSE "closed"
    /\ stopTaken' = TRUE
    /\ opc' = "delivering"
    /\ UNCHANGED <<symb, ret, ev, ob, subResult, cause, nUnsub, nClose,
                   delivered>>
    /\ UNCHANGED <<readerVars, writerVars, parseVars, pusherVars>>

\* case <-c.Errors: c.Unsubscribe(order_book_<symb>) is called
OrchErrorsCase ==
    /\ opc = "delivering"
    /\ errorsQ # <<>>
    /\ cause' = Head(errorsQ)
    /\ errorsQ' = Tail(errorsQ)
    /\ call' = [call EXCEPT
                  ![Orch] = SendCall("Unsubscribe", <<ChannelName(symb)>>)]
    /\ nUnsub' = nUnsub + 1
    /\ opc' = "unsubscribe"
    /\ UNCHANGED <<rlpc, cur, done, connClosed, nread, closedInRead, histVars>>
    /\ UNCHANGED <<sendLock, wire>>
    /\ UNCHANGED <<symb, ret, ev, ob, stopChan, stopTaken, subResult, nClose,
                   delivered>>
    /\ UNCHANGED <<parseVars, pusherVars>>

\* c.Unsubscribe(...) has returned (result not looked at); c.Close() is called
OrchUnsubscribed ==
    /\ opc = "unsubscribe"
    /\ call[Orch].pc = "ret"
    /\ call' = [call EXCEPT ![Orch] = CloseCall]
    /\ nClose' = nClose + 1
    /\ opc' = "close"
    /\ UNCHANGED <<symb, ret, ev, ob, stopChan, stopTaken, subResult, cause,
                   nUnsub, delivered>>
    /\ UNCHANGED <<sendLock, wire>>
    /\ UNCHANGED <<readerVars, parseVars, pusherVars>>

\* c.Close() has returned; return nil
OrchReturn ==
    /\ opc = "close"
    /\ call[Orch].pc = "ret"
    /\ call' = [call EXCEPT ![Orch] = IdleCall]
    /\ opc' = "returned"
    /\ ret' = Nil
    /\ UNCHANGED <<symb, ev, ob, stopChan, stopTaken, subResult, cause,
                   nUnsub, nClose, delivered>>
    /\ UNCHANGED <<sendLock, wire>>
    /\ UNCHANGED <<readerVars, parseVars, pusherVars>>

\* the caller sends a value on stopChan, or closes it
FireStop ==
    /\ stopChan = "open"
    /\ opc \notin {"returned", "panicked"}
    /\ \E how \in {"sending", "closed"} : stopChan' = how
    /\ UNCHANGED <<symb, opc, ret, ev, ob, stopTaken, subResult, cause,
                   nUnsub, nClose, delivered>>
    /\ UNCHANGED <<readerVars, writerVars, parseVars, pusherVars>>

\* the steps of SubscribeOrderBook's own goroutine
OrchStep ==
    \/ OrchNewWsClient
    \/ OrchSubscribed
    \/ OrchRecvStream
    \/ OrchHandle
    \/ OrchStopCase
    \/ OrchErrorsCase
    \/ OrchUnsubscribed
    \/ OrchReturn
    \/ sendEventLock(Orch)
    \/ sendEventWrite(Orch)
    \/ sendEventWriteEnd(Orch)
    \/ sendEventUnlock(Orch)
    \/ CloseSelect(Orch)

-----------------------------------------------------------------------------
(* FeedSpec: SubscribeOrderBook, its WsClient, the network and the caller. *)

FeedInit ==
    /\ ReaderInit("absent")
    /\ WriterInit
    /\ OrchInit("start")
    /\ ParseInit

\* a panic that nothing recovers ends the process and every goroutine in it
Alive == opc # "panicked"

FeedNext ==
    \/ Alive /\ ReaderSelect
    \/ Alive /\ ReadFrame(Frames)
    \/ Alive /\ ReadError
    \/ Alive /\ ReaderPushReadErr
    \/ Alive /\ ReaderClassify
    \/ Alive /\ ReaderSleep
    \/ Alive /\ ReaderUnmarshal
    \/ Alive /\ ReaderPushDecodeErr
    \/ OrchNewWsClient
    \/ sendEventLock(Orch)
    \/ sendEventWrite(Orch)
    \/ sendEventWriteEnd(Orch)
    \/ sendEventUnlock(Orch)
    \/ CloseSelect(Orch)
    \/ OrchSubscribed
    \/ OrchRecvStream
    \/ OrchHandle
    \/ OrchForward
    \/ OrchStopCase
    \/ OrchErrorsCase
    \/ OrchUnsubscribed
    \/ OrchReturn
    \/ FireStop

FeedSpec == FeedInit /\ [][FeedNext]_vars

\* Every goroutine that can take a step eventually takes one, a pending read
\* eventually returns, and the caller keeps receiving from dataChan.
FairFeedSpec ==
    /\ FeedSpec
    /\ WF_vars(Alive /\ ReaderStep)
    /\ WF_vars(Alive /\ (ReadFrame(Frames) \/ ReadError))
    /\ WF_vars(OrchStep)
    /\ WF_vars(OrchForward)

-----------------------------------------------------------------------------
(* Api.SubscribeOrderBook over the push service (src/bitstamp.go). *)

\* channel := "order_book"; if symb != "btcusd" { channel += "_" + symb }
PusherChannelName(sy) ==
    IF sy # "btcusd" THEN "order_book" \o "_" \o sy ELSE "order_book"

\* what SubscribeOrderBook leaves unchanged in the WsClient's part of the state
PusherFrame ==
    /\ UNCHANGED <<rlpc, cur, done, errorsQ, connClosed, closedInRead, histVars>>
    /\ UNCHANGED <<writerVars, parseVars>>
    /\ UNCHANGED <<symb, ev, subResult, cause, nUnsub, nClose>>

\* pusher.NewClient(APP_KEY) and the choice of the channel name
PusherNewClient ==
    /\ opc = "start"
    /\ \E ok \in BOOLEAN :
         IF ok
         THEN /\ channel' = PusherChannelName(symb)
              /\ opc' = "subscribe"
              /\ ret' = ret
         ELSE /\ opc' = "returned"
              /\ ret' = Wrap(<<"pusher: dial error">>, "client creation error")
              /\ channel' = channel
    /\ UNCHANGED <<pusherClient, nread, ob, stopChan, stopTaken, delivered>>
    /\ PusherFrame

\* err = pusherClient.Subscribe(channel)
PusherSubscribe ==
    /\ opc = "subscribe"
    /\ \E ok \in BOOLEAN :
         IF ok
         THEN /\ pusherClient' =
                   [pusherClient EXCEPT !.subscribed = @ \cup {channel}]
              /\ opc' = "bind"
              /\ ret' = ret
         ELSE /\ opc' = "returned"
              /\ ret' = Wrap(<<"pusher: subscribe error">>, "subscription error")
              /\ pusherClient' = pusherClient
    /\ UNCHANGED <<channel, nread, ob, stopChan, stopTaken, delivered>>
    /\ PusherFrame

\* dataChannelTrade, err := pusherClient.Bind("data")
PusherBind ==
    /\ opc = "bind"
    /\ \E ok \in BOOLEAN :
         IF ok
         THEN /\ pusherClient' = [pusherClient EXCEPT !.bound = TRUE]
              /\ opc' = "delivering"
              /\ ret' = ret
         ELSE /\ opc' = "returned"
              /\ ret' = Wrap(<<"pusher: bind error">>, "bind error")
              /\ pusherClient' = pusherClient
    /\ UNCHANGED <<channel, nread, ob, stopChan, stopTaken, delivered>>
    /\ PusherFrame

\* case dataEvt, ok := <-dataChannelTrade with ok true: the event is decoded
PusherRecvData ==
    /\ opc = "delivering"
    /\ nread < MaxFrames
    /\ nread' = nread + 1
    /\ \E p \in PayloadDocs, now \in Clock :
         LET r == parseOrderBookPusher(p, now) IN
         IF r.st = "ok"
         THEN opc' = "forward" /\ ob' = r.book              \* dataChan <- *ob
         ELSE IF r.st = "err"
         THEN opc' = "delivering" /\ ob' = ob               \* dropped
         ELSE opc' = "panicked" /\ ob' = ob
    /\ UNCHANGED <<channel, pusherClient, ret, stopChan, stopTaken, delivered>>
    /\ PusherFrame

\* case dataEvt, ok := <-dataChannelTrade with ok false: the channel is closed
PusherChanClosed ==
    /\ opc = "delivering"
    /\ opc' = "returned"
    /\ ret' = <<"websocket has been closed">>
    /\ UNCHANGED <<channel, pusherClient, nread, ob, stopChan, stopTaken,
                   delivered>>
    /\ PusherFrame

\* dataChan <- *ob completes: the caller receives the order book
PusherForward ==
    /\ opc = "forward"
    /\ delivered' = Append(delivered, ob)
    /\ ob' = NoBook
    /\ opc' = "delivering"
    /\ UNCHANGED <<channel, pusherClient, nread, ret, stopChan, stopTaken>>
    /\ PusherFrame

\* case <-stopChan: pusherClient.Unbind("data"),
\* pusherClient.Unsubscribe("order_book"), pusherClient.Close(), return nil
PusherStopCase ==
    /\ opc = "delivering"
    /\ stopChan \in {"sending", "closed"}
    /\ stopChan' = IF stopChan = "sending" THEN "open" ELSE "closed"
    /\ stopTaken' = TRUE
    /\ pusherClient' =
         PusherClient(pusherClient.subscribed \ {"order_book"},
                      pusherClient.unsubscribed \cup {"order_book"}, FALSE, TRUE)
    /\ opc' = "returned"
    /\ ret' = Nil
    /\ UNCHANGED <<channel, nread, ob, delivered>>
    /\ PusherFrame

PusherInit ==
    /\ ReaderInit("absent")
    /\ WriterInit
    /\ OrchInit("start")
    /\ ParseInit

PusherNext ==
    \/ PusherNewClient
    \/ PusherSubscribe
    \/ PusherBind
    \/ PusherRecvData
    \/ PusherChanClosed
    \/ PusherForward
    \/ PusherStopCase
    \/ FireStop

PusherSpec == PusherInit /\ [][PusherNext]_vars

-----------------------------------------------------------------------------
(* ParseSpec: parseOrderBook on every document of a bounded set. *)

\* the elements a bids or asks array is built from
Elements ==
    { JStr(<<"1">>),                                    \* "1": not an array
      JArr(<<>>),                                       \* []
      JArr(<<JStr(<<"1">>)>>),                          \* ["1"]
      Pair(<<"1", ".", "5">>, <<"2">>),                 \* ["1.5","2"]
      Pair(<<"x">>, <<"1">>),                           \* ["x","1"]
      JArr(<<JNum, JStr(<<"1">>)>>),                    \* [1,"1"]
      JArr(<<JStr(<<"3">>), JStr(<<"1">>), JStr(<<"9">>)>>) }  \* ["3","1","9"]

SeqsUpTo(S, n) == UNION {[1..m -> S] : m \in 0..n}

\* what the bids or asks key can hold: nothing, null, a string, an array
Sides ==
    {Absent, JNull, JStr(<<"1">>)}
        \cup {JArr(es) : es \in SeqsUpTo(Elements, MaxLen)}

\* what the timestamp key can hold: nothing, "17", "1x", a number
Timestamps == {Absent, JStr(<<"1", "7">>), JStr(<<"1", "x">>), JNum}

\* the bytes handed to parseOrderBook: not JSON, JSON that is no object
\* (a string, a number, an array), null, or an object
ParseDocs ==
    {Doc("invalid", Absent, Absent, Absent), Doc("other", Absent, Absent, Absent),
     NullDoc}
        \cup {Doc("object", ts, b, a) : ts \in Timestamps, b \in Sides, a \in Sides}

ParseSpecInit ==
    /\ ReaderInit("absent")
    /\ WriterInit
    /\ OrchInit("absent")
    /\ symb = "btcusd"
    /\ doc \in ParseDocs
    /\ pres = NoResult
    /\ presPusher = NoResult
    /\ tbody = NoBody
    /\ tres = NoTrades
    /\ PusherIdle

\* api.parseOrderBook(body), as GetOrderBook and SubscribeOrderBook call it
DecodeOrderBook ==
    /\ pres = NoResult
    /\ \E now \in Clock :
         /\ pres' = parseOrderBook(doc, now)
         /\ presPusher' = parseOrderBookPusher(doc, now)
    /\ UNCHANGED <<doc, tbody, tres>>
    /\ UNCHANGED <<readerVars, writerVars, orchVars, pusherVars>>

ParseNext == DecodeOrderBook

ParseSpec == ParseSpecInit /\ [][ParseNext]_vars

-----------------------------------------------------------------------------
(* TradeSpec: formatTrades on every list of a bounded set. *)

Str10 == JStr(<<"1", "0">>)

\* {"price":"10","amount":"1","date":"17","tid":"55"}
GoodTrade1 == TradeRec(TRUE, Str10, JStr(<<"1">>), JStr(<<"1", "7">>),
                       JStr(<<"5", "5">>))

\* {"price":"2.5","amount":"10","date":"9","tid":"7"}
GoodTrade2 == TradeRec(TRUE, JStr(<<"2", ".", "5">>), Str10, JStr(<<"9">>),
                       JStr(<<"7">>))

\* the elements a list of trades is built from
TradeRecs ==
    { GoodTrade1,
      GoodTrade2,
      [GoodTrade1 EXCEPT !.price = JStr(<<"x">>)],      \* "price":"x"
      [GoodTrade1 EXCEPT !.amount = JStr(<<"x">>)],     \* "amount":"x"
      [GoodTrade1 EXCEPT !.date = JStr(<<"1", "x">>)],  \* "date":"1x"
      [GoodTrade1 EXCEPT !.amount = Absent],            \* no "amount"
      [GoodTrade1 EXCEPT !.price = JNum],               \* "price":10
      [GoodTrade1 EXCEPT !.tid = JNum],                 \* "tid":55
      TradeRec(FALSE, Absent, Absent, Absent, Absent) } \* "x": no object

TradeBodies ==
    {TradeBody("invalid", <<>>), TradeBody("other", <<>>), TradeBody("null", <<>>)}
        \cup {TradeBody("array", recs) : recs \in SeqsUpTo(TradeRecs, MaxTrades)}

TradeSpecInit ==
    /\ ReaderInit("absent")
    /\ WriterInit
    /\ OrchInit("absent")
    /\ symb = "btcusd"
    /\ doc = NullDoc
    /\ pres = NoResult
    /\ presPusher = NoResult
    /\ tbody \in TradeBodies
    /\ tres = NoTrades
    /\ PusherIdle

\* formatTrades(body), as GetTrades and GetTradesParams call it
DecodeTrades ==
    /\ tres = NoTrades
    /\ tres' = formatTrades(tbody)
    /\ UNCHANGED <<doc, pres, presPusher, tbody>>
    /\ UNCHANGED <<readerVars, writerVars, orchVars, pusherVars>>

TradeNext == DecodeTrades

TradeSpec == TradeSpecInit /\ [][TradeNext]_vars

-----------------------------------------------------------------------------
(* The claims. *)

Terminating == {"unsubscribe", "close", "returned"}

\* C1 (as claimed): once the select of SubscribeOrderBook has taken the stop
\* signal, SubscribeOrderBook has left Delivering: it is unsubscribing,
\* closing the client, or has returned.
C1_StopLeavesDelivering == stopTaken => opc \in Terminating

\* C2: the shutdown flag never holds more than one signal, and a Close call
\* that has reached its select can always complete it at once, whatever the
\* read loop and the other callers are doing.
C2_CloseNonBlocking ==
    /\ done <= DoneCap
    /\ \A c \in Callers : call[c].pc = "close" => ENABLED CloseSelect(c)

\* C2 witness: the read loop is blocked on Stream, one Close has returned
\* after finding the flag already set, and another Close is in progress.
C2_Witness ==
    /\ rlpc = "sending"
    /\ done = DoneCap
    /\ \E c1, c2 \in Callers :
         /\ c1 # c2
         /\ call[c1].pc = "ret" /\ call[c1].op = "Close"
         /\ call[c1].res = "dropped"
         /\ call[c2].pc = "close"

\* C3: the connection is closed at most once, it is closed exactly when the
\* read loop has terminated, and the only steps that close it are the read
\* loop's: taking the shutdown flag, or classifying a read error as not
\* temporary.
C3_ClosedOnceByReadLoop ==
    /\ [](connClosed <= 1 /\ (connClosed = 1 <=> rlpc = "terminated"))
    /\ [][connClosed' # connClosed =>
            /\ rlpc' = "terminated"
            /\ \/ rlpc = "select" /\ done > 0
               \/ rlpc = "classify" /\ cur.err = "permanent"]_vars

\* C3 witness: the read loop has closed the connection, after that a Close
\* has set the flag again and a Subscribe or Unsubscribe has failed on the
\* closed connection.
C3_Witness ==
    /\ connClosed = 1
    /\ done = DoneCap
    /\ \E c \in Callers : call[c].pc = "ret" /\ call[c].res = "err"

\* C4 (as claimed): when Close has run while the read loop was inside
\* ReadMessage and nothing can take a step any more, the read loop has
\* terminated and the connection has been closed once.
C4_CloseDuringReadTerminates ==
    (closedInRead /\ ~ENABLED FeedNext) =>
        (rlpc = "terminated" /\ connClosed = 1)

\* C5: Errors never holds more than one error, the read loop can always
\* complete a push to Errors at once, and a push that finds an error in the
\* queue leaves the queue as it is.
C5_ErrorsPushNonBlocking ==
    /\ [](/\ Len(errorsQ) <= ErrorsCap
          /\ rlpc = "pushReadErr" => ENABLED ReaderPushReadErr
          /\ rlpc = "pushDecodeErr" => ENABLED ReaderPushDecodeErr)
    /\ [][(/\ rlpc \in {"pushReadErr", "pushDecodeErr"}
           /\ rlpc' # rlpc
           /\ Len(errorsQ) = ErrorsCap) => errorsQ' = errorsQ]_vars

\* C5 witness: the read loop has gone past the push of a read error while
\* Errors still holds an earlier, different error: the new one was discarded.
C5_Witness ==
    /\ rlpc = "classify"
    /\ Len(errorsQ) = ErrorsCap
    /\ Head(errorsQ) # cur.err

InWriteJSON == {w \in Writers : call[w].pc \in {"write", "writeEnd"}}

\* C6: at most one caller is inside WriteJSON, and what is on the wire since
\* the last frame boundary is nothing, or the first part of the one frame
\* whose writer is still writing it.
C6_WritersExcluded ==
    /\ Cardinality(InWriteJSON) <= 1
    /\ Len(wire) <= 1
    /\ wire # <<>> => /\ wire[1].part = "begin"
                      /\ call[wire[1].w].pc = "writeEnd"

\* C6 witness: one caller has written the first part of a frame while
\* another caller is waiting for the lock.
C6_Witness ==
    \E c1, c2 \in Callers :
        /\ c1 # c2
        /\ call[c1].pc = "writeEnd"
        /\ wire = <<Fragment(c1, EventOf(call[c1].op), Head(call[c1].chans),
                             "begin")>>
        /\ call[c2].pc = "lock"

\* C7 (as claimed): when c.Subscribe has failed, SubscribeOrderBook has
\* returned an error, and so is not in its Delivering loop.
C7_SubscribeFailurePropagates ==
    subResult = "err" => (opc = "returned" /\ ret # Nil)

\* C8 (as claimed): a decode failure never ends the streaming: the error
\* that takes SubscribeOrderBook out of Delivering is never an envelope
\* decode error, and a payload that fails the order-book decode never makes
\* SubscribeOrderBook panic.
C8_DecodeFailureNonFatal ==
    /\ opc \in Terminating => cause # "unmarshal"
    /\ opc # "panicked"

\* C9: when SubscribeOrderBook has returned and its client had been opened,
\* it has called Unsubscribe once and Close once; and Close is never called
\* before Unsubscribe was.
C9_UnsubscribeThenCloseOnce ==
    /\ (opc = "returned" /\ rlpc # "absent") => (nUnsub = 1 /\ nClose = 1)
    /\ nClose <= nUnsub
    /\ opc = "unsubscribe" => nClose = 0

\* C9 witness: SubscribeOrderBook has returned with its client opened.
C9_Witness ==
    /\ opc = "returned"
    /\ rlpc # "absent"
    /\ cause # NoErr

\* bids or asks is absent from the document, or is no array
MissingSide(d) == Field(d, "bids").k # "arr" \/ Field(d, "asks").k # "arr"

\* C10 (as claimed): for a document whose bids or asks is absent or is no
\* sequence, both parseOrderBook functions return a non-nil error and no
\* order book.
C10_BidsAsksMandatory ==
    (pres # NoResult /\ MissingSide(doc)) =>
        (pres.st = "err" /\ presPusher.st = "err")

\* an element the spec accepts: exactly two entries, both strings that parse
\* as numbers
WellFormed(elem) ==
    /\ elem.k = "arr"
    /\ Len(elem.a) = 2
    /\ \A j \in 1..2 : elem.a[j].k = "str" /\ ParseFloat(elem.a[j].s).err = Nil

\* the side holds an element that is not well formed
HasBadElement(side) ==
    side.k = "arr" /\ \E i \in DOMAIN side.a : ~WellFormed(side.a[i])

\* the document gets as far as its elements: an object whose timestamp is
\* absent or valid and whose bids and asks are both arrays
ReachesElements(d) ==
    /\ UnmarshalMap(d) = Nil
    /\ parseTimestamp(d, 0).err = Nil
    /\ ~MissingSide(d)

\* the message of the side whose bad element is met first: bids before asks
SideMessage(d) ==
    IF HasBadElement(d.bids) THEN "bids parsing error" ELSE "asks parsing error"

\* C11 (as claimed): when bids or asks holds an element that does not have
\* exactly two entries or whose price or amount is not a number, both
\* parseOrderBook functions return a non-nil error whose outermost message
\* names the side of the first such element, bids before asks.
C11_BadElementRejected ==
    (/\ pres # NoResult
     /\ ReachesElements(doc)
     /\ HasBadElement(doc.bids) \/ HasBadElement(doc.asks)) =>
        \A r \in {pres, presPusher} :
            r.st = "err" /\ r.err # Nil /\ Head(r.err) = SideMessage(doc)

\* the record is one the claim calls bad: price, amount, date or tid missing
\* or not a string, or price, amount or date not a number
BadTrade(t) ==
    \/ ~t.obj
    \/ \E f \in {t.price, t.amount, t.date, t.tid} : f.k # "str"
    \/ ParseFloat(t.price.s).err # Nil
    \/ ParseFloat(t.amount.s).err # Nil
    \/ ParseInt(t.date.s).err # Nil

\* index of the first bad record of the list, 0 when there is none
FirstBad(recs) ==
    LET bad == {i \in DOMAIN recs : BadTrade(recs[i])} IN
    IF bad = {} THEN 0 ELSE CHOOSE i \in bad : \A j \in bad : i <= j

\* the Trade a good record stands for
TradeOf(t) == [Time |-> <<ParseInt(t.date.s).v>>, ID |-> t.tid.s,
               Price |-> ParseFloat(t.price.s).v,
               Amount |-> ParseFloat(t.amount.s).v]

\* C12 (as claimed): for a list of N records, when record i is the first bad
\* one, formatTrades returns a non-nil error and a slice that holds the
\* trades of the records before i and nothing decoded after them; when no
\* record is bad it returns the N trades in input order and a nil error.
C12_FirstBadRecordStops ==
    (tres # NoTrades /\ tbody.top = "array") =>
        LET recs == tbody.recs
            i    == FirstBad(recs)
        IN
        IF i = 0
        THEN /\ tres.st = "ok"
             /\ tres.err = Nil
             /\ tres.trades = [j \in DOMAIN recs |-> TradeOf(recs[j])]
        ELSE /\ tres.st = "err"
             /\ tres.err # Nil
             /\ Len(tres.trades) >= i - 1
             /\ \A j \in 1..(i - 1) : tres.trades[j] = TradeOf(recs[j])
             /\ \A j \in i..Len(tres.trades) : tres.trades[j] = ZeroTrade

\* the read error just classified exposes Temporary()
ClassifyingCapable == rlpc = "classify" /\ HasTemporary(cur.err)

\* what both readings of C13 share: an error whose Temporary() is true sends
\* the loop to its sleep and then to the next iteration with the connection
\* left open; one whose Temporary() is false ends the loop and closes the
\* connection; a loop that has ended reads no more.
ClassifiedByCapability ==
    /\ [][(ClassifyingCapable /\ rlpc' # rlpc) =>
            IF Temporary(cur.err)
            THEN rlpc' = "sleeping" /\ connClosed' = connClosed
            ELSE rlpc' = "terminated" /\ connClosed' = connClosed + 1]_vars
    /\ [][(rlpc = "sleeping" /\ rlpc' # rlpc) => rlpc' = "select"]_vars
    /\ [][rlpc = "terminated" => rlpc' = "terminated"]_vars
    /\ [](rlpc \in {"classify", "sleeping", "select"} => ENABLED ReaderStep)

\* C13 (as claimed): after a retryable read error the loop sleeps and then
\* attempts another read; after a non-retryable one it terminates, closing
\* the connection, and reads no more.
C13_RetryableRereads ==
    /\ ClassifiedByCapability
    /\ [][(rlpc = "select" /\ retrying = "temporary" /\ rlpc' # rlpc) =>
            rlpc' = "reading"]_vars

\* C13 (amended): as claimed, but the iteration started after the sleep
\* attempts another read only if the shutdown flag is not set; if Close has
\* set it meanwhile, that iteration terminates the loop instead.
C13_RetryableRereadsUnlessClosed ==
    /\ ClassifiedByCapability
    /\ [][(rlpc = "select" /\ retrying = "temporary" /\ rlpc' # rlpc) =>
            IF done = 0 THEN rlpc' = "reading" ELSE rlpc' = "terminated"]_vars

\* C13 witness: the loop has slept on a retryable read error that found
\* Errors already full, and with the shutdown flag not set it is about to
\* read again.
C13_Witness ==
    /\ rlpc = "select"
    /\ retrying = "temporary"
    /\ done = 0
    /\ errorsQ # <<>> /\ Head(errorsQ) # "temporary"

IsPrefix(a, b) == Len(a) <= Len(b) /\ SubSeq(b, 1, Len(a)) = a

Increasing(a) == \A i, j \in DOMAIN a : i < j => a[i] < a[j]

\* C14: what consumers have taken from Stream is what the read loop decoded,
\* in the same order and each envelope once, up to one envelope not yet
\* taken; that one is the envelope the loop is blocked offering, and the loop
\* is never inside a read, or past it, with an earlier envelope untaken.
C14_StreamBackpressure ==
    /\ IsPrefix(recvLog, readLog)
    /\ Increasing(readLog)
    /\ Len(readLog) - Len(recvLog) <= 1
    /\ Len(readLog) > Len(recvLog) <=> rlpc = "sending"
    /\ rlpc = "sending" => readLog[Len(readLog)] = nread
    /\ rlpc \in {"reading", "unmarshal"} => readLog = recvLog

\* C14 witness: two frames were read and decoded, and consumers took both
\* envelopes, the first before the second.
C14_Witness == readLog = <<1, 2>> /\ recvLog = <<1, 2>>

\* the envelope ev is a "data" event whose payload decodes to the book b
DecodesTo(e, b) ==
    /\ e.event = "data"
    /\ \E now \in Clock :
         LET r == parseOrderBook(Marshal(e.data).b, now) IN
         r.st = "ok" /\ r.book = b

\* C15: an order book reaches the caller only as the book that the envelope
\* just taken from Stream, a "data" event, decoded to; the books forwarded
\* come from distinct envelopes in the order these were taken; and an
\* envelope with another event name forwards nothing and leaves
\* SubscribeOrderBook in its select loop.
C15_ForwardsDataDecodes ==
    /\ [](/\ Len(fwdLog) = Len(delivered)
          /\ Increasing(fwdLog)
          /\ \A k \in DOMAIN fwdLog : \E n \in DOMAIN recvLog : recvLog[n] = fwdLog[k]
          /\ opc \in {"handle", "forward"} =>
                /\ recvLog # <<>>
                /\ \A k \in DOMAIN fwdLog : fwdLog[k] < recvLog[Len(recvLog)])
    /\ [][delivered' # delivered =>
            /\ opc = "forward"
            /\ delivered' = Append(delivered, ob)]_vars
    /\ [][(opc' = "forward" /\ opc # "forward") =>
            /\ opc = "handle"
            /\ DecodesTo(ev, ob')]_vars
    /\ [][(opc' = "handle" /\ opc # "handle") =>
            /\ opc = "delivering" /\ rlpc = "sending"
            /\ ev' = cur.frame
            /\ recvLog' = Append(recvLog, nread)]_vars
    /\ [][(opc = "handle" /\ opc' # opc /\ ev.event # "data") =>
            /\ opc' = "delivering"
            /\ delivered' = delivered]_vars

\* C15 witness: SubscribeOrderBook took two envelopes; the first forwarded
\* nothing, the book of the second has reached the caller, and
\* SubscribeOrderBook is back in its select loop.
C15_Witness ==
    /\ opc = "delivering"
    /\ recvLog = <<1, 2>>
    /\ fwdLog = <<2>>
    /\ Len(delivered) = 1

\* the read loop is between the start of a read and the hand-over of its
\* frame on Stream
MidIteration == {"reading", "unmarshal", "sending"}

\* C16: the shutdown flag is taken only by the select at the start of an
\* iteration, which then terminates the loop; with the flag set no read is
\* started, so the only read after Close is one already past the select;
\* the flag stays set until the loop takes it; and the loop never
\* terminates from inside a read or between a read and the offer of its
\* frame on Stream, where its steps stay enabled with the flag set.
C16_CooperativeCancellation ==
    /\ [][done' < done => rlpc = "select" /\ rlpc' = "terminated"]_vars
    /\ [][(rlpc = "select" /\ rlpc' # rlpc) =>
            IF done > 0 THEN rlpc' = "terminated" ELSE rlpc' = "reading"]_vars
    /\ [][(done > 0 /\ rlpc # "reading") => rlpc' # "reading"]_vars
    /\ [][(rlpc' = "terminated" /\ rlpc # "terminated") =>
            rlpc \notin MidIteration]_vars
    /\ [](/\ rlpc = "reading" => ENABLED ReadError
          /\ rlpc = "unmarshal" => ENABLED ReaderUnmarshal
          /\ rlpc = "sending" => ENABLED ConsumeStream)

\* C16 witness: Close has set the flag while the loop was inside a read;
\* the read has returned a frame, and the loop, not interrupted, is offering
\* its envelope on Stream with the flag still set.
C16_Witness ==
    /\ rlpc = "sending"
    /\ done = DoneCap
    /\ closedInRead

\* C17: a read error without a Temporary method never ends the loop: it is
\* offered to Errors and slept on with the connection left open, the
\* iteration after the sleep reads again whenever the shutdown flag is not
\* set, and none of these steps can be blocked, however many such errors
\* went before.
C17_PlainErrorRetried ==
    /\ [][(rlpc = "classify" /\ ~HasTemporary(cur.err) /\ rlpc' # rlpc) =>
            /\ rlpc' = "sleeping"
            /\ retrying' = cur.err
            /\ connClosed' = connClosed]_vars
    /\ [][(rlpc = "select" /\ ~HasTemporary(retrying) /\ retrying # NoErr
                /\ done = 0 /\ rlpc' # rlpc) => rlpc' = "reading"]_vars
    /\ [][(rlpc' = "terminated" /\ rlpc = "classify") =>
            cur.err = "permanent"]_vars
    /\ [](/\ rlpc = "pushReadErr" => ENABLED ReaderPushReadErr
          /\ rlpc = "classify" => ENABLED ReaderClassify
          /\ rlpc = "sleeping" => ENABLED ReaderSleep
          /\ rlpc = "select" => ENABLED ReaderSelect)

\* C17 witness: the loop has slept on an error without a Temporary method
\* while Errors still held an earlier one, and with the shutdown flag not
\* set it is about to read again.
C17_Witness ==
    /\ rlpc = "select"
    /\ retrying = "plain"
    /\ done = 0
    /\ errorsQ # <<>> /\ Head(errorsQ) # "plain"

\* C18 (as claimed): once SubscribeOrderBook has called Close and returned,
\* the read loop is not left offering an envelope on Stream, and when
\* nothing can take a step any more the loop has terminated and closed the
\* connection.
C18_ReadLoopEndsAfterReturn ==
    (opc = "returned" /\ nClose = 1) =>
        /\ rlpc # "sending"
        /\ ~ENABLED FeedNext => (rlpc = "terminated" /\ connClosed = 1)

\* the positions of SubscribeOrderBook inside its for / select loop
Delivering == {"delivering", "handle", "forward"}

\* C19 (as claimed): when a non-retryable read error has ended the read loop
\* while SubscribeOrderBook was in its loop, and nothing can take a step any
\* more (the caller never stops receiving), SubscribeOrderBook has returned.
C19_FatalReadErrorReturns ==
    (diedAt \in Delivering /\ ~ENABLED FeedNext) => opc = "returned"

\* C20 (as claimed): when the push-service SubscribeOrderBook has returned
\* on the stop signal, the one channel name it passed to Unsubscribe is the
\* one it had subscribed, and none of its subscriptions is left.
C20_UnsubscribesWhatItSubscribed ==
    (opc = "returned" /\ stopTaken) =>
        /\ pusherClient.unsubscribed = {channel}
        /\ pusherClient.subscribed = {}

====
